---- MODULE Spec2Model ----
(***************************************************************************)
(* Model of the transcription pipeline of local-ai-transcription:          *)
(*   src/src/main/index.ts     main process (installation, IPC handlers,   *)
(*                             temp files, conversion, inference, the      *)
(*                             token grouping loop)                        *)
(*   src/src/preload/index.ts  progress listener registration              *)
(*   src/unnamed/part_001      renderer App (progress listener effect)     *)
(*                                                                         *)
(* JavaScript strings are sequences of one-character strings.  JavaScript  *)
(* numbers that hold a time are records [nan, v]: v is the value in        *)
(* milliseconds (so that x.5 seconds is exact), nan marks NaN.             *)
(***************************************************************************)
EXTENDS Integers, Sequences, FiniteSets, TLC

(* ------------------------------------------------------------------ *)
(* Bounds of the model                                                 *)
(* ------------------------------------------------------------------ *)
\* tokens in one transcription given to the grouping loop
MaxTokens == 2

\* transcribe-audio invocations in one process
MaxCalls == 2

\* the last millisecond of the clock (Date.now() is in 0..MaxClock)
MaxClock == 1

\* progress notifications the engine emits in one inference call
MaxProgress == 2

\* runs of the renderer's progress listener effect in one page
MaxMounts == 2

\* browser windows created in one process
MaxWindows == 2

(* ------------------------------------------------------------------ *)
(* Strings                                                             *)
(* ------------------------------------------------------------------ *)
Digits == <<"0", "1", "2", "3", "4", "5", "6", "7", "8", "9">>

IsDigit(c) == \E i \in 1..10 : Digits[i] = c

DigitValue(c) == (CHOOSE i \in 1..10 : Digits[i] = c) - 1

\* \s of a JavaScript regular expression, and the characters trim() removes
IsSpace(c) == c \in {" ", "\t", "\n"}

\* index of the first occurrence of sep in s, 0 when there is none
IndexOf(s, sep) ==
  IF \E i \in 1..Len(s) : s[i] = sep
  THEN CHOOSE i \in 1..Len(s) : s[i] = sep /\ \A j \in 1..(i - 1) : s[j] # sep
  ELSE 0

\* String.prototype.split(sep) for a one-character separator: always at
\* least one piece, the pieces between the separators
RECURSIVE Split(_, _)
Split(s, sep) ==
  LET i == IndexOf(s, sep)
  IN IF i = 0
     THEN <<s>>
     ELSE <<SubSeq(s, 1, i - 1)>> \o Split(SubSeq(s, i + 1, Len(s)), sep)

\* array destructuring / indexing: a missing element is undefined
Undefined == [def |-> FALSE, s |-> <<>>]

Elem(arr, i) == IF i <= Len(arr) THEN [def |-> TRUE, s |-> arr[i]] ELSE Undefined

\* String.prototype.trim()
RECURSIVE TrimStart(_)
TrimStart(s) ==
  IF s # <<>> /\ IsSpace(Head(s)) THEN TrimStart(Tail(s)) ELSE s

RECURSIVE TrimEnd(_)
TrimEnd(s) ==
  IF s # <<>> /\ IsSpace(s[Len(s)]) THEN TrimEnd(SubSeq(s, 1, Len(s) - 1)) ELSE s

Trim(s) == TrimEnd(TrimStart(s))

\* replace(/\s+/g, ' '): every maximal run of whitespace becomes one space
RECURSIVE CollapseSpaces(_)
CollapseSpaces(s) ==
  IF s = <<>> THEN <<>>
  ELSE IF IsSpace(Head(s))
       THEN <<" ">> \o CollapseSpaces(TrimStart(s))
       ELSE <<Head(s)>> \o CollapseSpaces(Tail(s))

\* Array.prototype.join(sep) of an array of strings
RECURSIVE Join(_, _)
Join(arr, sep) ==
  IF arr = <<>> THEN <<>>
  ELSE IF Len(arr) = 1 THEN arr[1]
  ELSE arr[1] \o sep \o Join(Tail(arr), sep)

(* ------------------------------------------------------------------ *)
(* Numbers                                                             *)
(* ------------------------------------------------------------------ *)
NaN == [nan |-> TRUE, v |-> 0]

Num(n) == [nan |-> FALSE, v |-> n]

\* a + b and a * k of JavaScript: NaN is absorbing
Plus(a, b) == IF a.nan \/ b.nan THEN NaN ELSE Num(a.v + b.v)

Times(a, k) == IF a.nan THEN NaN ELSE Num(a.v * k)

\* a <= b of JavaScript: false when either side is NaN
Leq(a, b) == ~a.nan /\ ~b.nan /\ a.v <= b.v

\* the decimal value of a string of digits
RECURSIVE Decimal(_)
Decimal(s) ==
  IF s = <<>> THEN 0
  ELSE Decimal(SubSeq(s, 1, Len(s) - 1)) * 10 + DigitValue(s[Len(s)])

\* Number(x) on the strings a split timestamp yields (digits and junk
\* letters): undefined is NaN, "" is 0, digits are their value, the rest NaN
ToNumber(x) ==
  IF ~x.def THEN NaN
  ELSE IF \A i \in 1..Len(x.s) : IsDigit(x.s[i]) THEN Num(Decimal(x.s))
  ELSE NaN

\* the longest prefix of digits
RECURSIVE DigitPrefix(_)
DigitPrefix(s) ==
  IF s # <<>> /\ IsDigit(Head(s)) THEN <<Head(s)>> \o DigitPrefix(Tail(s)) ELSE <<>>

\* parseInt(x): the leading digits, NaN when there are none (undefined is
\* converted to the string "undefined", which has none)
ParseInt(x) ==
  IF ~x.def THEN NaN
  ELSE LET p == DigitPrefix(TrimStart(x.s))
       IN IF p = <<>> THEN NaN ELSE Num(Decimal(p))

\* Math.floor in place of Math.round: the fraction of a second is cut off
MathFloor(a) == IF a.nan THEN NaN ELSE Num(a.v \div 1000)

\* Math.round of a value held in milliseconds, in whole seconds: the nearest
\* integer, a half rounding up; NaN stays NaN
MathRound(a) == IF a.nan THEN NaN ELSE Num((a.v + 500) \div 1000)

(* ------------------------------------------------------------------ *)
(* timestampToSeconds (main/index.ts 38-47)                            *)
(* ------------------------------------------------------------------ *)
\* Whether the body of the try block throws.  split, map(Number) and
\* parseInt throw on no string: split always yields a first piece, a missing
\* piece is undefined and Number(undefined), parseInt(undefined) are NaN.
ParseThrows(timestamp) == FALSE

\* the value of the try block, in milliseconds:
\* hours * 3600 + minutes * 60 + seconds + parseInt(ms) / 1000
ParsedTime(timestamp) ==
  LET parts   == Split(timestamp, ",")
      time    == Elem(parts, 1)
      ms      == Elem(parts, 2)
      fields  == Split(time.s, ":")
      hours   == ToNumber(Elem(fields, 1))
      minutes == ToNumber(Elem(fields, 2))
      seconds == ToNumber(Elem(fields, 3))
  IN Plus(Plus(Plus(Times(hours, 3600 * 1000), Times(minutes, 60 * 1000)),
               Times(seconds, 1000)),
          ParseInt(ms))

timestampToSeconds(timestamp) ==
  IF ParseThrows(timestamp) THEN Num(0) ELSE ParsedTime(timestamp)

(* ------------------------------------------------------------------ *)
(* The token grouping loop (main/index.ts 127-175)                     *)
(* A token is [text, from, to]; a sentence is [text, start, end].      *)
(* ------------------------------------------------------------------ *)
\* token.text.match(/[.!?]$/), the text not trimmed
EndsSentenceUntrimmed(text) ==
  text # <<>> /\ text[Len(text)] \in {".", "!", "?"}

\* token.text.trim().match(/[.!?]$/)
EndsSentence(text) ==
  LET t == Trim(text) IN t # <<>> /\ t[Len(t)] \in {".", "!", "?"}

\* startToken?.from ? timestampToSeconds(startToken.from) : 0
TimeOrZero(timestamp) ==
  IF timestamp # <<>> THEN timestampToSeconds(timestamp) ELSE Num(0)

\* the sentence text without trim(): join('').replace(/\s+/g, ' ')
SentenceTextUntrimmed(currentSentence) ==
  CollapseSpaces(Join([i \in 1..Len(currentSentence) |-> currentSentence[i].text], <<>>))

\* currentSentence.map((t) => t.text).join('').trim().replace(/\s+/g, ' ')
SentenceText(currentSentence) ==
  CollapseSpaces(Trim(Join([i \in 1..Len(currentSentence) |-> currentSentence[i].text], <<>>)))

\* sentences.unshift(...) in place of push: the newest sentence comes first
UnshiftSentence(sentences, s) == <<s>> \o sentences

\* sentences.push({text, start, end})
PushSentence(sentences, s) == Append(sentences, s)

\* a sentence whose start is taken from the boundary token's end and whose
\* end from the first token's start
CloseSentenceSwapped(sentences, currentSentence, token) ==
  LET start == TimeOrZero(token.to)
      end   == TimeOrZero(currentSentence[1].from)
      text  == SentenceText(currentSentence)
  IN IF text # <<>>
     THEN Append(sentences,
                 [text |-> text, start |-> MathRound(start), end |-> MathRound(end)])
     ELSE sentences

\* a sentence whose start is cut to the whole second (Math.floor) while its
\* end is rounded
CloseSentenceFloorStart(sentences, currentSentence, token) ==
  LET start == TimeOrZero(currentSentence[1].from)
      end   == TimeOrZero(token.to)
      text  == SentenceText(currentSentence)
  IN IF text # <<>>
     THEN Append(sentences,
                 [text |-> text, start |-> MathFloor(start), end |-> MathRound(end)])
     ELSE sentences

\* the sentence closed at `token`, the last token pushed on currentSentence
CloseSentence(sentences, currentSentence, token) ==
  LET start == TimeOrZero(currentSentence[1].from)
      end   == TimeOrZero(token.to)
      text  == SentenceText(currentSentence)
  IN IF text # <<>>
     THEN PushSentence(sentences,
                       [text |-> text, start |-> MathRound(start), end |-> MathRound(end)])
     ELSE sentences

\* transcription.forEach((token, index) => ...) from `index` on
RECURSIVE GroupTokens(_, _, _, _)
GroupTokens(transcription, index, currentSentence, sentences) ==
  IF index > Len(transcription) THEN sentences
  ELSE LET token  == transcription[index]
           pushed == Append(currentSentence, token)
       IN IF EndsSentence(token.text) \/ index = Len(transcription)
          THEN GroupTokens(transcription, index + 1, <<>>,
                           CloseSentence(sentences, pushed, token))
          ELSE GroupTokens(transcription, index + 1, pushed, sentences)

Sentences(transcription) == GroupTokens(transcription, 1, <<>>, <<>>)

\* the full text joined with no separator: join('')
TranscriptionResultUnspaced(transcription) ==
  LET sentences == Sentences(transcription)
  IN [text   |-> Join([i \in 1..Len(sentences) |-> sentences[i].text], <<>>),
      tokens |-> sentences]

\* return { text: sentences.map((s) => s.text).join(' '), tokens: sentences }
TranscriptionResult(transcription) ==
  LET sentences == Sentences(transcription)
  IN [text   |-> Join([i \in 1..Len(sentences) |-> sentences[i].text], <<" ">>),
      tokens |-> sentences]

(* ------------------------------------------------------------------ *)
(* Inputs of the pure functions                                        *)
(* ------------------------------------------------------------------ *)
Fmt2(n) == <<Digits[(n \div 10) + 1], Digits[(n % 10) + 1]>>

Fmt3(n) == <<Digits[(n \div 100) + 1], Digits[((n \div 10) % 10) + 1], Digits[(n % 10) + 1]>>

\* the engine's timestamp format HH:MM:SS,mmm of a time in milliseconds
FormatTimestamp(t) ==
  Fmt2(t \div 3600000) \o <<":">> \o Fmt2((t \div 60000) % 60) \o <<":">>
    \o Fmt2((t \div 1000) % 60) \o <<",">> \o Fmt3(t % 1000)

WellFormed(ts) ==
  /\ Len(ts) = 12
  /\ ts[3] = ":" /\ ts[6] = ":" /\ ts[9] = ","
  /\ \A i \in {1, 2, 4, 5, 7, 8, 10, 11, 12} : IsDigit(ts[i])

\* s with the character at i removed / replaced by c
DropAt(s, i) == SubSeq(s, 1, i - 1) \o SubSeq(s, i + 1, Len(s))

PutAt(s, i, c) == [s EXCEPT ![i] = c]

BaseTimes == {0, 500, 1000, 62500, 3723004}

WellFormedTimestamps == {FormatTimestamp(t) : t \in BaseTimes}

\* a well-formed timestamp damaged in one place, and one cut at the comma
DamagedTimestamps ==
  LET base == FormatTimestamp(3723004)
  IN {DropAt(base, i) : i \in 1..12} \cup {PutAt(base, i, "z") : i \in 1..12}
       \cup {SubSeq(base, 1, 8)}

TimestampInputs == WellFormedTimestamps \cup DamagedTimestamps

NoComma == SubSeq(FormatTimestamp(2000), 1, 8)

TokenTexts ==
  { <<"a", " ">>, <<" ", "b", ".">>, <<" ">>, <<"c", "!", " ">>, <<"?">> }

\* the times the tokens of the inputs start and end at
TokenBaseTimes == {0, 500, 1000}

TokenTimes ==
  LET well == {FormatTimestamp(t) : t \in TokenBaseTimes}
      odd  == {NoComma, <<>>}
      one  == FormatTimestamp(1000)
  IN (well \X well) \cup {<<o, one>> : o \in odd} \cup {<<one, o>> : o \in odd}

Tokens == {[text |-> x, from |-> p[1], to |-> p[2]] : x \in TokenTexts, p \in TokenTimes}

RECURSIVE SeqsUpTo(_, _)
SeqsUpTo(S, n) ==
  IF n = 0 THEN {<<>>}
  ELSE LET shorter == SeqsUpTo(S, n - 1)
       IN shorter \cup {Append(q, x) : q \in {r \in shorter : Len(r) = n - 1}, x \in S}

TokenSequences == SeqsUpTo(Tokens, MaxTokens)

\* what the engine returns in the process model: nothing, or the two tokens
\* "a " 0s-0.5s and " b." 0.5s-1s
EngineOutputs ==
  { <<>>,
    << [text |-> <<"a", " ">>, from |-> FormatTimestamp(0), to |-> FormatTimestamp(500)],
       [text |-> <<" ", "b", ".">>, from |-> FormatTimestamp(500), to |-> FormatTimestamp(1000)] >> }

\* fractions the engine reports, in percent
ProgressValues == {40, 90}

\* messages of the errors ffmpeg, the engine and the file system raise
CauseMessages == {"spawn ENOENT", "exit code 1"}

(* ------------------------------------------------------------------ *)
(* State                                                               *)
(* ------------------------------------------------------------------ *)
VARIABLES
  phase,                \* "launching", "installWhisperCpp", "downloadWhisperModel", "running", "quit"
  platform,             \* process.platform: "darwin" or "other"
  isWhisperInitialized, \* main/index.ts 11
  installAttempts,      \* runs of initWhisper so far
  installOutcome,       \* "pending", "ok", "failed"
  handlers,             \* channels ipcMain has a handler for
  windows,              \* open BrowserWindows
  nextWindow,           \* id of the next BrowserWindow
  mainWindow,           \* the window the registered transcribe-audio handler closes over
  loading,              \* windows whose page load was started and has not finished
  loaded,               \* windows whose page (preload + renderer) is loaded
  createWindowThrew,    \* createWindow calls that ended in an exception
  readyReplies,         \* values is-whisper-ready has returned
  now,                  \* Date.now()
  fs,                   \* tmpdir: path -> the call whose data the file holds, 0 when absent
  call,                 \* the transcribe-audio invocations
  nextCall,             \* id of the next invocation
  mounted,              \* handleProgress of the mounted effect, 0 when none
  mounts,               \* runs of the effect so far
  listeners,            \* ipcRenderer's listeners on 'transcription-progress', in order
  nextListener,         \* id of the next listener closure the preload script creates
  channel,              \* 'transcription-progress' messages sent and not yet delivered
  observed,             \* per handleProgress, the <<call, progress>> it was invoked with
  input,                \* pure-function harness: the argument
  output                \* pure-function harness: the value computed

lifecycleVars == <<phase, platform, isWhisperInitialized, installAttempts, installOutcome>>
windowVars    == <<handlers, windows, nextWindow, mainWindow, loading, loaded, createWindowThrew>>
callVars      == <<now, fs, call, nextCall>>
rendererVars  == <<mounted, mounts, listeners, nextListener, channel, observed>>
pureVars      == <<input, output>>

vars == <<lifecycleVars, windowVars, callVars, rendererVars, pureVars, readyReplies>>

Channels == {"is-whisper-ready", "transcribe-audio"}

CallIds == 1..MaxCalls

Paths == {"webm", "wav"} \X (0..MaxClock)

NoPath == <<"none", 0>>

\* recording-${Date.now()}.webm in tmpdir (main/index.ts 101)
WebmPath(t) == <<"webm", t>>

\* ${Date.now()}.wav in tmpdir (main/index.ts 17)
WavPath(t) == <<"wav", t>>

NoError == [name |-> "none", stage |-> "none", message |-> "none"]

\* new Error('Whisper model not initialized. ...') (main/index.ts 93)
NotReadyThrown ==
  [name |-> "Error", stage |-> "none", message |-> "Whisper model not initialized"]

\* the error object a failing external operation raises
Raised(m) == [name |-> "Error", stage |-> "none", message |-> m]

IdleCall ==
  [pc            |-> "idle",     \* "idle", "converting", "inferring", "done"
   readyAtStart  |-> FALSE,      \* the readiness flag when the handler was entered
   tempWebmFile  |-> NoPath,
   tempWavFile   |-> NoPath,
   outputPath    |-> NoPath,     \* convertToWav's outputPath
   created       |-> {},         \* the temp files this call wrote
   convInvoked   |-> FALSE,      \* ffmpeg was started
   inferInvoked  |-> FALSE,      \* transcribe() was called
   removalFailed |-> FALSE,      \* an unlinkSync of this call threw
   emitted       |-> <<>>,       \* progress values the engine emitted
   transcription |-> <<>>,       \* the tokens transcribe() resolved with
   subscribed    |-> {},         \* callbacks listening when transcribe() was called
   failedAt      |-> "none",     \* "ready", "write", "convert", "infer"
   cause         |-> NoError,    \* the error the failing stage raised
   outcome       |-> "none",     \* "result" or "error"
   error         |-> NoError,    \* what the handler threw
   result        |-> [text |-> <<>>, tokens |-> <<>>]]

NoInput == [kind |-> "none", timestamp |-> <<>>, transcription |-> <<>>]

NoOutput == [done |-> FALSE, seconds |-> Num(0), result |-> [text |-> <<>>, tokens |-> <<>>]]

(* ------------------------------------------------------------------ *)
(* Startup: app.whenReady, initWhisper, createWindow                   *)
(* ------------------------------------------------------------------ *)
\* createWindow() (main/index.ts 70-207): a new BrowserWindow, then
\* ipcMain.handle for the two channels, then the page load.  ipcMain.handle
\* throws when the channel already has a handler; the lines after it are
\* then not reached.
CreateWindow ==
  /\ windows' = windows \cup {nextWindow}
  /\ nextWindow' = nextWindow + 1
  /\ IF "is-whisper-ready" \in handlers
     THEN /\ createWindowThrew' = createWindowThrew + 1
          /\ UNCHANGED <<handlers, mainWindow, loading>>
     ELSE /\ handlers' = handlers \cup Channels
          /\ mainWindow' = nextWindow
          /\ loading' = loading \cup {nextWindow}
          /\ UNCHANGED createWindowThrew
  /\ UNCHANGED loaded

\* a whenReady callback that calls createWindow before it awaits initWhisper
AppReadyWindowFirst ==
  /\ phase = "launching"
  /\ phase' = "installWhisperCpp"
  /\ installAttempts' = installAttempts + 1
  /\ CreateWindow
  /\ UNCHANGED <<platform, isWhisperInitialized, installOutcome>>
  /\ UNCHANGED <<callVars, rendererVars, pureVars, readyReplies>>

\* app.whenReady().then(...) up to the first await of initWhisper
\* (main/index.ts 211-217, 49-55)
AppReady ==
  /\ phase = "launching"
  /\ phase' = "installWhisperCpp"
  /\ installAttempts' = installAttempts + 1
  /\ UNCHANGED <<platform, isWhisperInitialized, installOutcome>>
  /\ UNCHANGED <<windowVars, callVars, rendererVars, pureVars, readyReplies>>

\* installWhisperCpp resolved: initWhisper goes on to downloadWhisperModel
InstallWhisperCppDone ==
  /\ phase = "installWhisperCpp"
  /\ phase' = "downloadWhisperModel"
  /\ UNCHANGED <<platform, isWhisperInitialized, installAttempts, installOutcome>>
  /\ UNCHANGED <<windowVars, callVars, rendererVars, pureVars, readyReplies>>

\* the flag the catch block of initWhisper leaves (main/index.ts 64-67)
FlagAfterInstallFailure == FALSE

\* a catch block that starts the installation again
InitWhisperFailRetries ==
  /\ phase \in {"installWhisperCpp", "downloadWhisperModel"}
  /\ isWhisperInitialized' = FALSE
  /\ installOutcome' = "failed"
  /\ phase' = "installWhisperCpp"
  /\ installAttempts' = installAttempts + 1
  /\ installAttempts < 3
  /\ UNCHANGED platform
  /\ UNCHANGED <<windowVars, callVars, rendererVars, pureVars, readyReplies>>

\* installWhisperCpp or downloadWhisperModel rejected: the catch block, then
\* the rest of the whenReady callback (createWindow, main/index.ts 220)
InitWhisperFail ==
  /\ phase \in {"installWhisperCpp", "downloadWhisperModel"}
  /\ isWhisperInitialized' = FlagAfterInstallFailure
  /\ installOutcome' = "failed"
  /\ phase' = "running"
  /\ CreateWindow
  /\ UNCHANGED <<platform, installAttempts>>
  /\ UNCHANGED <<callVars, rendererVars, pureVars, readyReplies>>

\* downloadWhisperModel resolved: the flag is set (main/index.ts 62), then
\* the rest of the whenReady callback
InitWhisperDone ==
  /\ phase = "downloadWhisperModel"
  /\ isWhisperInitialized' = TRUE
  /\ installOutcome' = "ok"
  /\ phase' = "running"
  /\ CreateWindow
  /\ UNCHANGED <<platform, installAttempts>>
  /\ UNCHANGED <<callVars, rendererVars, pureVars, readyReplies>>

\* the page of window w finished loading: the preload script has exposed
\* window.api and the renderer runs
RendererLoad(w) ==
  /\ phase = "running"
  /\ w \in loading
  /\ loading' = loading \ {w}
  /\ loaded' = loaded \cup {w}
  /\ UNCHANGED <<handlers, windows, nextWindow, mainWindow, createWindowThrew>>
  /\ UNCHANGED <<lifecycleVars, callVars, rendererVars, pureVars, readyReplies>>

\* the user closes window w; when it was the last one, window-all-closed
\* quits the app except on macOS (main/index.ts 238-242)
CloseWindow(w) ==
  /\ phase = "running"
  /\ w \in windows
  /\ windows' = windows \ {w}
  /\ loading' = loading \ {w}
  /\ loaded' = loaded \ {w}
  /\ IF w \in loaded
     THEN /\ mounted' = 0
          /\ listeners' = <<>>
          /\ channel' = <<>>
          /\ observed' = [cb \in 1..MaxMounts |-> <<>>]
          /\ UNCHANGED <<mounts, nextListener>>
     ELSE UNCHANGED rendererVars
  /\ phase' = IF windows' = {} /\ platform # "darwin" THEN "quit" ELSE phase
  /\ UNCHANGED <<platform, isWhisperInitialized, installAttempts, installOutcome>>
  /\ UNCHANGED <<handlers, nextWindow, mainWindow, createWindowThrew>>
  /\ UNCHANGED <<callVars, pureVars, readyReplies>>

\* an activate handler that runs the installation again, which fails
ActivateReinstalls ==
  /\ phase = "running"
  /\ platform = "darwin"
  /\ windows = {}
  /\ nextWindow <= MaxWindows
  /\ CreateWindow
  /\ isWhisperInitialized' = FALSE
  /\ UNCHANGED <<phase, platform, installAttempts, installOutcome>>
  /\ UNCHANGED <<callVars, rendererVars, pureVars, readyReplies>>

\* app.on('activate') (main/index.ts 228-232), an event of macOS
Activate ==
  /\ phase = "running"
  /\ platform = "darwin"
  /\ windows = {}
  /\ nextWindow <= MaxWindows
  /\ CreateWindow
  /\ UNCHANGED <<lifecycleVars, callVars, rendererVars, pureVars, readyReplies>>

\* ipcMain.handle('is-whisper-ready') (main/index.ts 86-89)
IsWhisperReady ==
  /\ phase = "running"
  /\ loaded # {}
  /\ "is-whisper-ready" \in handlers
  /\ readyReplies' = readyReplies \cup {isWhisperInitialized}
  /\ UNCHANGED <<lifecycleVars, windowVars, callVars, rendererVars, pureVars>>

\* a millisecond passes
Tick ==
  /\ phase = "running"
  /\ now < MaxClock
  /\ now' = now + 1
  /\ UNCHANGED <<fs, call, nextCall>>
  /\ UNCHANGED <<lifecycleVars, windowVars, rendererVars, pureVars, readyReplies>>

(* ------------------------------------------------------------------ *)
(* ipcMain.handle('transcribe-audio') (main/index.ts 91-189)           *)
(* ------------------------------------------------------------------ *)
\* unlinkSync(path): throws when the file is absent or cannot be removed
UnlinkSync(files, path, fails) ==
  IF files[path] = 0 \/ fails
  THEN [fs |-> files, threw |-> TRUE]
  ELSE [fs |-> [files EXCEPT ![path] = 0], threw |-> FALSE]

\* the finally block (main/index.ts 179-188): the WAV file is removed when
\* tempWavFile is set; a failure is logged
Finally(files, tempWavFile, fails) ==
  IF tempWavFile # NoPath
  THEN UnlinkSync(files, tempWavFile, fails)
  ELSE [fs |-> files, threw |-> FALSE]

\* a catch block that logs and does not rethrow
Swallowed(error) == NoError

\* the catch block (main/index.ts 176-178): logs and rethrows
Rethrown(error) == error

\* the error a failing unlinkSync throws
RemovalError == Raised("EPERM: operation not permitted, unlink")

\* a finally block without try/catch around unlinkSync: the removal error
\* replaces what the handler was about to return or throw
RemovalSurfaced(threw, error) == IF threw THEN RemovalError ELSE error

\* try { unlinkSync(tempWavFile) } catch { console.error(...) }
\* (main/index.ts 181-187): the removal error is logged, and the handler ends
\* with `error`, what it was about to throw (NoError: it returns its result)
RemovalLogged(threw, error) == error

\* a renderer invokes transcribe-audio: invocation c enters the handler
Invoked(c) ==
  /\ phase = "running"
  /\ loaded # {}
  /\ "transcribe-audio" \in handlers
  /\ c = nextCall
  /\ c <= MaxCalls
  /\ nextCall' = nextCall + 1

\* the readiness check placed after the write of the input file
TranscribeNotReadyAfterWrite(c) ==
  /\ Invoked(c)
  /\ ~isWhisperInitialized
  /\ fs' = [fs EXCEPT ![WebmPath(now)] = c]
  /\ call' = [call EXCEPT ![c] =
       [@ EXCEPT !.pc = "done", !.failedAt = "ready", !.cause = NotReadyThrown,
                 !.tempWebmFile = WebmPath(now), !.created = {WebmPath(now)},
                 !.outcome = "error", !.error = NotReadyThrown]]
  /\ UNCHANGED now
  /\ UNCHANGED <<lifecycleVars, windowVars, rendererVars, pureVars, readyReplies>>

\* the flag is false: the handler throws at once (main/index.ts 92-94)
TranscribeNotReady(c) ==
  /\ Invoked(c)
  /\ ~isWhisperInitialized
  /\ call' = [call EXCEPT ![c] =
       [@ EXCEPT !.pc = "done", !.failedAt = "ready", !.cause = NotReadyThrown,
                 !.outcome = "error", !.error = NotReadyThrown]]
  /\ UNCHANGED <<now, fs>>
  /\ UNCHANGED <<lifecycleVars, windowVars, rendererVars, pureVars, readyReplies>>

\* writeFileSync throws an error with message m (main/index.ts 102): catch,
\* finally with tempWavFile still null.  `partial`: the file was created
\* before the error.
TranscribeWriteFail(c, m, partial) ==
  /\ Invoked(c)
  /\ isWhisperInitialized
  /\ LET webm == WebmPath(now)
         fin  == Finally(IF partial THEN [fs EXCEPT ![webm] = c] ELSE fs, NoPath, FALSE)
     IN /\ fs' = fin.fs
        /\ call' = [call EXCEPT ![c] =
             [@ EXCEPT !.pc = "done", !.readyAtStart = TRUE, !.tempWebmFile = webm,
                       !.created = IF partial THEN {webm} ELSE {},
                       !.failedAt = "write", !.cause = Raised(m),
                       !.outcome = "error", !.error = Rethrown(Raised(m))]]
  /\ UNCHANGED now
  /\ UNCHANGED <<lifecycleVars, windowVars, rendererVars, pureVars, readyReplies>>

\* the input is written and convertToWav starts ffmpeg on it
\* (main/index.ts 99-107, 15-21, 34); d milliseconds pass during the write
TranscribeStart(c, d) ==
  /\ Invoked(c)
  /\ isWhisperInitialized
  /\ now + d <= MaxClock
  /\ now' = now + d
  /\ fs' = [fs EXCEPT ![WebmPath(now)] = c]
  /\ call' = [call EXCEPT ![c] =
       [@ EXCEPT !.pc = "converting", !.readyAtStart = TRUE,
                 !.tempWebmFile = WebmPath(now), !.created = {WebmPath(now)},
                 !.outputPath = WavPath(now + d), !.convInvoked = TRUE]]
  /\ UNCHANGED <<lifecycleVars, windowVars, rendererVars, pureVars, readyReplies>>

\* ffmpeg's 'end' (main/index.ts 22-30): the WAV file is there, the input is
\* removed (`fails`: the removal fails), the promise resolves; the handler
\* goes on to transcribe() (main/index.ts 107-122)
ConvertEnd(c, fails) ==
  /\ phase = "running"
  /\ call[c].pc = "converting"
  /\ LET written == [fs EXCEPT ![call[c].outputPath] = c]
         un      == UnlinkSync(written, call[c].tempWebmFile, fails)
     IN /\ fs' = un.fs
        /\ call' = [call EXCEPT ![c] =
             [@ EXCEPT !.pc = "inferring", !.tempWavFile = call[c].outputPath,
                       !.created = @ \cup {call[c].outputPath},
                       !.removalFailed = @ \/ un.threw, !.inferInvoked = TRUE,
                       !.subscribed = {listeners[i].cb : i \in 1..Len(listeners)}]]
  /\ UNCHANGED <<now, nextCall>>
  /\ UNCHANGED <<lifecycleVars, windowVars, rendererVars, pureVars, readyReplies>>

\* a handler that goes on to transcribe() after ffmpeg's 'error'
ConvertErrorGoesOn(c, m, partial) ==
  /\ phase = "running"
  /\ call[c].pc = "converting"
  /\ fs' = IF partial THEN [fs EXCEPT ![call[c].outputPath] = c] ELSE fs
  /\ call' = [call EXCEPT ![c] =
       [@ EXCEPT !.pc = "inferring", !.tempWavFile = call[c].outputPath,
                 !.created = IF partial THEN @ \cup {call[c].outputPath} ELSE @,
                 !.failedAt = "convert", !.cause = Raised(m), !.inferInvoked = TRUE]]
  /\ UNCHANGED <<now, nextCall>>
  /\ UNCHANGED <<lifecycleVars, windowVars, rendererVars, pureVars, readyReplies>>

\* ffmpeg's 'error' with message m (main/index.ts 31-33): the promise
\* rejects, tempWavFile stays null; catch, finally.  `partial`: ffmpeg had
\* written part of the output.
ConvertError(c, m, partial) ==
  /\ phase = "running"
  /\ call[c].pc = "converting"
  /\ LET fin == Finally(IF partial THEN [fs EXCEPT ![call[c].outputPath] = c] ELSE fs,
                        call[c].tempWavFile, FALSE)
     IN /\ fs' = fin.fs
        /\ call' = [call EXCEPT ![c] =
             [@ EXCEPT !.pc = "done",
                       !.created = IF partial THEN @ \cup {call[c].outputPath} ELSE @,
                       !.failedAt = "convert", !.cause = Raised(m),
                       !.outcome = "error", !.error = Rethrown(Raised(m))]]
  /\ UNCHANGED <<now, nextCall>>
  /\ UNCHANGED <<lifecycleVars, windowVars, rendererVars, pureVars, readyReplies>>

\* the newest message overtakes those in flight
SendFirst(ch, msg) == <<msg>> \o ch

\* mainWindow.webContents.send('transcription-progress', progress)
\* (main/index.ts 120): the message joins those in flight to the page
Send(ch, msg) == Append(ch, msg)

\* an onProgress that logs the progress and sends nothing
TranscribeProgressUnsent(c, v) ==
  /\ phase = "running"
  /\ call[c].pc = "inferring"
  /\ Len(call[c].emitted) < MaxProgress
  /\ call' = [call EXCEPT ![c].emitted = Append(@, v)]
  /\ UNCHANGED <<now, fs, nextCall>>
  /\ UNCHANGED <<rendererVars, lifecycleVars, windowVars, pureVars, readyReplies>>

\* the engine reports progress v: onProgress (main/index.ts 118-121).
\* Sending to a closed window throws in the engine's event handler; nothing
\* is sent.
TranscribeProgress(c, v) ==
  /\ phase = "running"
  /\ call[c].pc = "inferring"
  /\ Len(call[c].emitted) < MaxProgress
  /\ call' = [call EXCEPT ![c].emitted = Append(@, v)]
  /\ channel' = IF mainWindow \in loaded THEN Send(channel, <<c, v>>) ELSE channel
  /\ UNCHANGED <<now, fs, nextCall>>
  /\ UNCHANGED <<mounted, mounts, listeners, nextListener, observed>>
  /\ UNCHANGED <<lifecycleVars, windowVars, pureVars, readyReplies>>

\* transcribe() resolved with `transcription`: the tokens are grouped and
\* the result returned (main/index.ts 124-175), then the finally block
\* (`fails`: the removal fails)
TranscribeDone(c, transcription, fails) ==
  /\ phase = "running"
  /\ call[c].pc = "inferring"
  /\ LET fin == Finally(fs, call[c].tempWavFile, fails)
         err == RemovalLogged(fin.threw, NoError)
     IN /\ fs' = fin.fs
        /\ call' = [call EXCEPT ![c] =
             [@ EXCEPT !.pc = "done", !.transcription = transcription,
                       !.outcome = IF err = NoError THEN "result" ELSE "error",
                       !.error = err,
                       !.result = IF err = NoError
                                  THEN TranscriptionResult(transcription) ELSE @,
                       !.removalFailed = @ \/ fin.threw]]
  /\ UNCHANGED <<now, nextCall>>
  /\ UNCHANGED <<lifecycleVars, windowVars, rendererVars, pureVars, readyReplies>>

\* transcribe() rejected with message m: catch, finally
TranscribeFail(c, m, fails) ==
  /\ phase = "running"
  /\ call[c].pc = "inferring"
  /\ LET fin == Finally(fs, call[c].tempWavFile, fails)
     IN /\ fs' = fin.fs
        /\ call' = [call EXCEPT ![c] =
             [@ EXCEPT !.pc = "done", !.failedAt = "infer", !.cause = Raised(m),
                       !.outcome = "error",
                       !.error = RemovalLogged(fin.threw, Rethrown(Raised(m))),
                       !.removalFailed = @ \/ fin.threw]]
  /\ UNCHANGED <<now, nextCall>>
  /\ UNCHANGED <<lifecycleVars, windowVars, rendererVars, pureVars, readyReplies>>

(* ------------------------------------------------------------------ *)
(* Progress listeners (preload/index.ts 16-23, renderer App 66-79)     *)
(* A listener is [id, cb]: id is the identity of the closure the       *)
(* preload script created, cb the callback it forwards to.             *)
(* ------------------------------------------------------------------ *)
\* ipcRenderer.on(channel, listener)
AddListener(ls, listener) == Append(ls, listener)

\* ipcRenderer.removeListener(channel, listener): the most recently added
\* entry that is this very listener is removed
RemoveListener(ls, listener) ==
  IF \E i \in 1..Len(ls) : ls[i] = listener
  THEN LET i == CHOOSE k \in 1..Len(ls) :
                  ls[k] = listener /\ \A j \in (k + 1)..Len(ls) : ls[j] # listener
       IN SubSeq(ls, 1, i - 1) \o SubSeq(ls, i + 1, Len(ls))
  ELSE ls

\* onTranscriptionProgress(callback): a new closure `id` is registered
OnTranscriptionProgress(ls, id, callback) ==
  AddListener(ls, [id |-> id, cb |-> callback])

\* offTranscriptionProgress(callback): a new closure `id` is made and
\* removeListener is called with it
OffTranscriptionProgress(ls, id, callback) ==
  RemoveListener(ls, [id |-> id, cb |-> callback])

\* the effect runs: a new handleProgress is registered (App 66-74)
AppMount ==
  /\ phase = "running"
  /\ loaded # {}
  /\ mounted = 0
  /\ mounts < MaxMounts
  /\ mounts' = mounts + 1
  /\ mounted' = mounts + 1
  /\ listeners' = OnTranscriptionProgress(listeners, nextListener, mounts + 1)
  /\ nextListener' = nextListener + 1
  /\ UNCHANGED <<channel, observed>>
  /\ UNCHANGED <<lifecycleVars, windowVars, callVars, pureVars, readyReplies>>

\* the effect's cleanup (App 76-78)
AppUnmount ==
  /\ phase = "running"
  /\ mounted # 0
  /\ mounted' = 0
  /\ listeners' = OffTranscriptionProgress(listeners, nextListener, mounted)
  /\ nextListener' = nextListener + 1
  /\ UNCHANGED <<mounts, channel, observed>>
  /\ UNCHANGED <<lifecycleVars, windowVars, callVars, pureVars, readyReplies>>

\* the callbacks invoked for one message, in listener order
RECURSIVE Invoke(_, _, _)
Invoke(obs, ls, msg) ==
  IF ls = <<>> THEN obs
  ELSE Invoke([obs EXCEPT ![Head(ls).cb] = Append(@, msg)], Tail(ls), msg)

\* the page receives the oldest message in flight: every listener runs
DeliverProgress ==
  /\ phase = "running"
  /\ channel # <<>>
  /\ observed' = Invoke(observed, listeners, Head(channel))
  /\ channel' = Tail(channel)
  /\ UNCHANGED <<mounted, mounts, listeners, nextListener>>
  /\ UNCHANGED <<lifecycleVars, windowVars, callVars, pureVars, readyReplies>>

(* ------------------------------------------------------------------ *)
(* The process                                                         *)
(* ------------------------------------------------------------------ *)
Init ==
  /\ phase = "launching"
  /\ platform \in {"darwin", "other"}
  /\ isWhisperInitialized = FALSE
  /\ installAttempts = 0
  /\ installOutcome = "pending"
  /\ handlers = {}
  /\ windows = {}
  /\ nextWindow = 1
  /\ mainWindow = 0
  /\ loading = {}
  /\ loaded = {}
  /\ createWindowThrew = 0
  /\ readyReplies = {}
  /\ now = 0
  /\ fs = [p \in Paths |-> 0]
  /\ call = [c \in CallIds |-> IdleCall]
  /\ nextCall = 1
  /\ mounted = 0
  /\ mounts = 0
  /\ listeners = <<>>
  /\ nextListener = 1
  /\ channel = <<>>
  /\ observed = [cb \in 1..MaxMounts |-> <<>>]
  /\ input = NoInput
  /\ output = NoOutput

\* the main process: startup, windows, readiness checks and transcribe calls
Next ==
  \/ AppReady
  \/ InstallWhisperCppDone
  \/ InitWhisperFail
  \/ InitWhisperDone
  \/ \E w \in 1..MaxWindows : RendererLoad(w)
  \/ \E w \in 1..MaxWindows : CloseWindow(w)
  \/ Activate
  \/ IsWhisperReady
  \/ Tick
  \/ \E c \in CallIds : TranscribeNotReady(c)
  \/ \E c \in CallIds, m \in CauseMessages, partial \in BOOLEAN : TranscribeWriteFail(c, m, partial)
  \/ \E c \in CallIds, d \in {0, 1} : TranscribeStart(c, d)
  \/ \E c \in CallIds, fails \in BOOLEAN : ConvertEnd(c, fails)
  \/ \E c \in CallIds, m \in CauseMessages, partial \in BOOLEAN : ConvertError(c, m, partial)
  \/ \E c \in CallIds, t \in EngineOutputs, fails \in BOOLEAN : TranscribeDone(c, t, fails)
  \/ \E c \in CallIds, m \in CauseMessages, fails \in BOOLEAN : TranscribeFail(c, m, fails)

Spec == Init /\ [][Next]_vars

\* the progress relay and the page's listeners, with a pipeline whose
\* conversions and removals succeed and whose clock stands still
NextProgress ==
  \/ AppReady
  \/ InstallWhisperCppDone
  \/ InitWhisperDone
  \/ \E w \in 1..MaxWindows : RendererLoad(w)
  \/ \E w \in 1..MaxWindows : CloseWindow(w)
  \/ \E c \in CallIds : TranscribeStart(c, 0)
  \/ \E c \in CallIds : ConvertEnd(c, FALSE)
  \/ \E c \in CallIds, v \in ProgressValues : TranscribeProgress(c, v)
  \/ \E c \in CallIds : TranscribeDone(c, <<>>, FALSE)
  \/ \E c \in CallIds : TranscribeFail(c, "exit code 1", FALSE)
  \/ AppMount
  \/ AppUnmount
  \/ DeliverProgress

SpecProgress == Init /\ [][NextProgress]_vars

(* ------------------------------------------------------------------ *)
(* The pure functions on their own: timestampToSeconds on one string,  *)
(* the grouping loop on one token sequence                             *)
(* ------------------------------------------------------------------ *)
InitPure ==
  /\ phase = "launching"
  /\ platform = "other"
  /\ isWhisperInitialized = FALSE
  /\ installAttempts = 0
  /\ installOutcome = "pending"
  /\ handlers = {}
  /\ windows = {}
  /\ nextWindow = 1
  /\ mainWindow = 0
  /\ loading = {}
  /\ loaded = {}
  /\ createWindowThrew = 0
  /\ readyReplies = {}
  /\ now = 0
  /\ fs = [p \in Paths |-> 0]
  /\ call = [c \in CallIds |-> IdleCall]
  /\ nextCall = 1
  /\ mounted = 0
  /\ mounts = 0
  /\ listeners = <<>>
  /\ nextListener = 1
  /\ channel = <<>>
  /\ observed = [cb \in 1..MaxMounts |-> <<>>]
  /\ \/ \E ts \in TimestampInputs :
          input = [kind |-> "timestamp", timestamp |-> ts, transcription |-> <<>>]
     \/ \E t \in TokenSequences :
          input = [kind |-> "tokens", timestamp |-> <<>>, transcription |-> t]
  /\ output = NoOutput

\* timestampToSeconds(input.timestamp)
ParseTimestamp ==
  /\ input.kind = "timestamp"
  /\ ~output.done
  /\ output' = [output EXCEPT !.done = TRUE, !.seconds = timestampToSeconds(input.timestamp)]
  /\ UNCHANGED <<lifecycleVars, windowVars, callVars, rendererVars, input, readyReplies>>

\* the grouping loop and the result built from it, on input.transcription
GroupSentences ==
  /\ input.kind = "tokens"
  /\ ~output.done
  /\ output' = [output EXCEPT !.done = TRUE, !.result = TranscriptionResult(input.transcription)]
  /\ UNCHANGED <<lifecycleVars, windowVars, callVars, rendererVars, input, readyReplies>>

NextPure ==
  \/ ParseTimestamp
  \/ GroupSentences

SpecPure == InitPure /\ [][NextPure]_vars

(* ================================================================== *)
(* Claims                                                              *)
(* ================================================================== *)
Done(c) == call[c].pc = "done"

\* the temp files a call in flight is using
FilesInUse(c) ==
  IF call[c].pc = "converting" THEN {call[c].tempWebmFile, call[c].outputPath}
  ELSE IF call[c].pc = "inferring" THEN {call[c].tempWavFile}
  ELSE {}

\* the progress values of call c among the messages of q, in order
RECURSIVE ValuesOf(_, _)
ValuesOf(q, c) ==
  IF q = <<>> THEN <<>>
  ELSE IF Head(q)[1] = c THEN <<Head(q)[2]>> \o ValuesOf(Tail(q), c)
  ELSE ValuesOf(Tail(q), c)

ListeningCallbacks == {listeners[i].cb : i \in 1..Len(listeners)}

\* the call is over: completed, failed in conversion or failed in inference
Terminal(c) ==
  Done(c) /\ (call[c].outcome = "result" \/ call[c].failedAt \in {"convert", "infer"})

\* C1: once a transcribe call that passed the readiness check is completed,
\* has failed in conversion or has failed in inference, and no file removal
\* of it failed, none of the temp files it created (the input file, the WAV
\* file) exists any more; in particular the input file is removed when the
\* conversion fails.
C1_TempFilesRemoved ==
  \A c \in CallIds :
    (Terminal(c) /\ call[c].readyAtStart /\ ~call[c].removalFailed)
      => \A p \in call[c].created : fs[p] = 0

\* C2: a transcribe call entered while the readiness flag is false is over in
\* that same step with the not-ready error; the step writes no file and
\* starts neither the conversion nor the inference.
C2_NotReadyFailsAtOnce ==
  [][\A c \in CallIds :
       (call[c].pc = "idle" /\ call'[c].pc # "idle" /\ ~isWhisperInitialized)
         => /\ call'[c].pc = "done"
            /\ call'[c].outcome = "error"
            /\ call'[c].error = NotReadyThrown
            /\ fs' = fs
            /\ call'[c].created = {}
            /\ ~call'[c].convInvoked
            /\ ~call'[c].inferInvoked]_vars

C2_Witness ==
  \E c \in CallIds : Done(c) /\ call[c].failedAt = "ready" /\ ~call[c].readyAtStart

\* C3: when every callback that was registered has been de-registered (no
\* effect is mounted), no listener is left on 'transcription-progress'.
C3_NoListenerLeft ==
  mounted = 0 => listeners = <<>>

\* C4: a callback that was listening when the inference of call c began, and
\* still is, has observed exactly the values the engine emitted for c that
\* are no longer in flight, in the order emitted: what it observed followed
\* by what is in flight is the emitted sequence.
C4_ProgressInOrder ==
  \A c \in CallIds :
    \A cb \in call[c].subscribed \cap ListeningCallbacks :
      ValuesOf(observed[cb], c) \o ValuesOf(channel, c) = call[c].emitted

C4_Witness ==
  \E c \in CallIds :
    \E cb \in call[c].subscribed \cap ListeningCallbacks :
      /\ Done(c)
      /\ Len(call[c].emitted) >= 2
      /\ call[c].emitted[1] # call[c].emitted[2]
      /\ ValuesOf(observed[cb], c) = call[c].emitted

\* C5: the readiness flag starts false, and no step takes it from true to
\* false.
C5_ReadinessMonotone ==
  /\ ~isWhisperInitialized
  /\ [][isWhisperInitialized => isWhisperInitialized']_vars

C5_Witness ==
  /\ isWhisperInitialized
  /\ nextWindow > 2
  /\ readyReplies # {}
  /\ \E c \in CallIds : Done(c)

\* C6: after a failed installation the flag is false, the installation has
\* run once, is-whisper-ready has only ever answered false, every transcribe
\* call made was rejected with the not-ready error, and the process runs on
\* (it quits only when the last window is closed off macOS).
C6_FailedInstallStaysNotReady ==
  installOutcome = "failed" =>
    /\ ~isWhisperInitialized
    /\ installAttempts = 1
    /\ readyReplies \subseteq {FALSE}
    /\ \A c \in CallIds :
         call[c].pc # "idle" => (Done(c) /\ call[c].error = NotReadyThrown)
    /\ \/ phase = "running"
       \/ phase = "quit" /\ platform # "darwin" /\ windows = {} /\ nextWindow > 1

C6_Witness ==
  /\ installOutcome = "failed"
  /\ phase = "running"
  /\ FALSE \in readyReplies
  /\ \A c \in CallIds : Done(c)

\* the error kind the taxonomy gives a failure of stage `stage`
KindOf(stage) ==
  IF stage = "ready" THEN "NotReadyError"
  ELSE IF stage = "convert" THEN "ConversionError"
  ELSE IF stage = "infer" THEN "InferenceError"
  ELSE "none"

AllDigits(x) == x # <<>> /\ \A i \in 1..Len(x) : IsDigit(x[i])

\* no comma, or an hour, minute, second or millisecond field that is missing
\* or not a number
Malformed(ts) ==
  LET parts  == Split(ts, ",")
      fields == Split(parts[1], ":")
  IN \/ Len(parts) # 2
     \/ Len(fields) # 3
     \/ \E i \in 1..Len(fields) : ~AllDigits(fields[i])
     \/ \E i \in 2..Len(parts) : ~AllDigits(parts[i])

\* C8: timestampToSeconds maps every malformed timestamp (no comma, a
\* missing or non-numeric field) to 0 seconds.
C8_MalformedIsZero ==
  (input.kind = "timestamp" /\ output.done /\ Malformed(input.timestamp))
    => output.seconds = Num(0)

\* C9: two transcribe calls in flight never use the same temp file.
C9_DisjointTempFiles ==
  \A c1, c2 \in CallIds :
    c1 # c2 => FilesInUse(c1) \cap FilesInUse(c2) = {}

StartsOrdered(sentences) ==
  \A i \in 1..(Len(sentences) - 1) : Leq(sentences[i].start, sentences[i + 1].start)

\* the time a well-formed timestamp of the token inputs stands for
TimeOf(ts) == CHOOSE t \in TokenBaseTimes : FormatTimestamp(t) = ts

\* the tokens' start timestamps are well-formed and non-decreasing
TimeOrdered(transcription) ==
  /\ \A i \in 1..Len(transcription) : WellFormed(transcription[i].from)
  /\ \A i \in 1..(Len(transcription) - 1) :
       TimeOf(transcription[i].from) <= TimeOf(transcription[i + 1].from)

\* C10 as claimed: for every token sequence, the starts of consecutive
\* emitted segments are non-decreasing.
C10_EveryTokenSequence ==
  (input.kind = "tokens" /\ output.done) => StartsOrdered(output.result.tokens)

\* C10 as amended: for every token sequence whose start timestamps are
\* well-formed and non-decreasing, the starts of consecutive emitted segments
\* are non-decreasing.
C10_TimeOrderedTokens ==
  (input.kind = "tokens" /\ output.done /\ TimeOrdered(input.transcription))
    => StartsOrdered(output.result.tokens)

C10_Witness ==
  /\ input.kind = "tokens"
  /\ output.done
  /\ TimeOrdered(input.transcription)
  /\ Len(output.result.tokens) = 2
  /\ output.result.tokens[1].start # output.result.tokens[2].start

\* the start and end timestamps of every token are well-formed
WellTimed(transcription) ==
  \A i \in 1..Len(transcription) :
    WellFormed(transcription[i].from) /\ WellFormed(transcription[i].to)

\* tokens as the engine produces them: well-formed timestamps, starts in
\* non-decreasing order, each token's start not after its end
EngineOrdered(transcription) ==
  /\ WellTimed(transcription)
  /\ \A i \in 1..Len(transcription) :
       TimeOf(transcription[i].from) <= TimeOf(transcription[i].to)
  /\ \A i \in 1..(Len(transcription) - 1) :
       TimeOf(transcription[i].from) <= TimeOf(transcription[i + 1].from)

\* C11: for every token sequence the engine can produce (well-formed
\* timestamps, starts non-decreasing, each start <= end), every emitted
\* segment has start <= end after rounding to whole seconds.
C11_StartNotAfterEnd ==
  (input.kind = "tokens" /\ output.done /\ EngineOrdered(input.transcription))
    => \A i \in 1..Len(output.result.tokens) :
         Leq(output.result.tokens[i].start, output.result.tokens[i].end)

\* two tokens grouped in one segment that starts before it ends
C11_Witness ==
  /\ input.kind = "tokens"
  /\ output.done
  /\ EngineOrdered(input.transcription)
  /\ Len(input.transcription) = 2
  /\ Len(output.result.tokens) = 1
  /\ output.result.tokens[1].start.v < output.result.tokens[1].end.v

\* engine order in which the ends are non-decreasing as well
EndsOrdered(transcription) ==
  /\ EngineOrdered(transcription)
  /\ \A i \in 1..(Len(transcription) - 1) :
       TimeOf(transcription[i].to) <= TimeOf(transcription[i + 1].to)

\* engine order in which no token starts before the token ahead of it ends
NonOverlapping(transcription) ==
  /\ EngineOrdered(transcription)
  /\ \A i \in 1..(Len(transcription) - 1) :
       TimeOf(transcription[i].to) <= TimeOf(transcription[i + 1].from)

\* no segment ends after the next one starts, and the segments are in the
\* order of their tokens (starts non-decreasing)
NoOverlap(sentences) ==
  \A i \in 1..(Len(sentences) - 1) :
    /\ Leq(sentences[i].end, sentences[i + 1].start)
    /\ Leq(sentences[i].start, sentences[i + 1].start)

\* C12 as claimed: for every token sequence in non-decreasing time order
\* (starts and ends non-decreasing, each start <= end), consecutive emitted
\* segments satisfy end(i) <= start(i+1).
C12_TimeOrderedNoOverlap ==
  (input.kind = "tokens" /\ output.done /\ EndsOrdered(input.transcription))
    => NoOverlap(output.result.tokens)

\* C12 as amended: for every token sequence in which each token ends no later
\* than the next token starts, consecutive emitted segments satisfy
\* end(i) <= start(i+1) and appear in the order of their tokens.
C12_DisjointTokensNoOverlap ==
  (input.kind = "tokens" /\ output.done /\ NonOverlapping(input.transcription))
    => NoOverlap(output.result.tokens)

\* two segments, the second starting in the second the first ends in
C12_Witness ==
  /\ input.kind = "tokens"
  /\ output.done
  /\ NonOverlapping(input.transcription)
  /\ Len(output.result.tokens) = 2
  /\ output.result.tokens[1].start.v < output.result.tokens[1].end.v
  /\ output.result.tokens[1].end = output.result.tokens[2].start

\* the text is whitespace only
Blank(text) == \A i \in 1..Len(text) : IsSpace(text[i])

\* [.!?] is the last character of the text that is not whitespace
HasTerminalMark(text) ==
  \E i \in 1..Len(text) :
    text[i] \in {".", "!", "?"} /\ \A j \in (i + 1)..Len(text) : IsSpace(text[j])

\* the tokens a buffer is closed at: those with a terminal mark, and the last
Boundaries(transcription) ==
  {i \in 1..Len(transcription) :
     HasTerminalMark(transcription[i].text) \/ i = Len(transcription)}

\* the first token of the buffer closed at boundary b
SpanStart(transcription, b) ==
  CHOOSE i \in 1..b :
    /\ \A j \in i..(b - 1) : j \notin Boundaries(transcription)
    /\ i = 1 \/ (i - 1) \in Boundaries(transcription)

\* the boundaries whose buffer holds more than whitespace
EmittingBoundaries(transcription) ==
  {b \in Boundaries(transcription) :
     \E j \in SpanStart(transcription, b)..b : ~Blank(transcription[j].text)}

\* the k-th smallest element of a set of numbers
Nth(S, k) == CHOOSE x \in S : Cardinality({y \in S : y < x}) = k - 1

NoSpaceRun(text) ==
  \A i \in 1..(Len(text) - 1) : ~(IsSpace(text[i]) /\ IsSpace(text[i + 1]))

\* C13: for every token sequence, every emitted segment has a non-empty text
\* that neither starts nor ends with whitespace and has no two whitespace
\* characters in a row; a buffer that is whitespace only emits no segment
\* (there are as many segments as buffers holding more than whitespace).
C13_SegmentTextClean ==
  (input.kind = "tokens" /\ output.done)
    => /\ \A i \in 1..Len(output.result.tokens) :
            LET text == output.result.tokens[i].text
            IN /\ text # <<>>
               /\ ~IsSpace(text[1])
               /\ ~IsSpace(text[Len(text)])
               /\ NoSpaceRun(text)
       /\ Len(output.result.tokens) = Cardinality(EmittingBoundaries(input.transcription))

\* a sentence with whitespace around it, then a whitespace-only buffer closed
\* at the last token: one segment
C13_Witness ==
  /\ input.kind = "tokens"
  /\ output.done
  /\ Len(input.transcription) = 2
  /\ IsSpace(input.transcription[1].text[1])
  /\ HasTerminalMark(input.transcription[1].text)
  /\ Blank(input.transcription[2].text)
  /\ Len(output.result.tokens) = 1

\* the texts of the first n segments with one space between neighbours
RECURSIVE SpacedUpTo(_, _)
SpacedUpTo(sentences, n) ==
  IF n = 0 THEN <<>>
  ELSE IF n = 1 THEN sentences[1].text
  ELSE SpacedUpTo(sentences, n - 1) \o <<" ">> \o sentences[n].text

\* C14: the result's text is the emitted segment texts in order with exactly
\* one space between neighbours, its segment list is the emitted segments in
\* order, and an empty token sequence gives no segment and the empty text.
C14_TextIsSegmentsJoined ==
  (input.kind = "tokens" /\ output.done)
    => /\ output.result.text =
            SpacedUpTo(output.result.tokens, Len(output.result.tokens))
       /\ output.result.tokens = Sentences(input.transcription)
       /\ input.transcription = <<>>
            => (output.result.tokens = <<>> /\ output.result.text = <<>>)

\* two segments joined by one space
C14_Witness ==
  /\ input.kind = "tokens"
  /\ output.done
  /\ Len(output.result.tokens) = 2
  /\ Len(output.result.text) =
       Len(output.result.tokens[1].text) + 1 + Len(output.result.tokens[2].text)

\* C15: a failed removal of a temp file never changes a call's outcome: a
\* call of which a removal failed (the input file after the conversion, the
\* WAV file at the end) and in which no stage failed returns the result built
\* from the tokens the engine gave; one in which a stage failed throws that
\* stage's error; the removal error is never what the caller receives.
C15_RemovalFailureHidden ==
  \A c \in CallIds :
    (Done(c) /\ call[c].removalFailed)
      => /\ call[c].error # RemovalError
         /\ call[c].failedAt = "none"
              => /\ call[c].outcome = "result"
                 /\ call[c].error = NoError
                 /\ call[c].result = TranscriptionResult(call[c].transcription)
         /\ call[c].failedAt # "none"
              => /\ call[c].outcome = "error"
                 /\ call[c].error = call[c].cause

\* removals failed in two calls: one returned its segments, the other threw
\* the inference error
C15_Witness ==
  \E c1, c2 \in CallIds :
    /\ Done(c1) /\ call[c1].removalFailed
    /\ call[c1].outcome = "result" /\ call[c1].result.tokens # <<>>
    /\ Done(c2) /\ call[c2].removalFailed
    /\ call[c2].failedAt = "infer" /\ call[c2].outcome = "error"

\* the stages a call passes through, in the order the handler allows
StageSteps ==
  { <<"idle", "converting">>, <<"idle", "done">>, <<"converting", "inferring">>,
    <<"converting", "done">>, <<"inferring", "done">> }

\* C16: the stages of a call occur only in the order write-input, normalize,
\* infer, aggregate: the conversion is started only with the input written,
\* the inference only after the conversion succeeded, a result is built only
\* after the inference; a call whose conversion failed is over with the
\* conversion error, with no inference call and no result.
C16_StagesInOrder ==
  /\ [](\A c \in CallIds :
          /\ call[c].convInvoked => call[c].tempWebmFile # NoPath
          /\ call[c].inferInvoked
               => /\ call[c].convInvoked
                  /\ call[c].tempWavFile # NoPath
                  /\ call[c].failedAt # "convert"
          /\ call[c].outcome = "result" => call[c].inferInvoked
          /\ call[c].failedAt = "convert"
               => /\ Done(c)
                  /\ ~call[c].inferInvoked
                  /\ call[c].outcome = "error"
                  /\ call[c].error = call[c].cause
                  /\ call[c].result = IdleCall.result)
  /\ [][\A c \in CallIds :
          call'[c].pc # call[c].pc => <<call[c].pc, call'[c].pc>> \in StageSteps]_vars

\* one call failed in the conversion, another went through every stage
C16_Witness ==
  \E c1, c2 \in CallIds :
    /\ Done(c1) /\ call[c1].failedAt = "convert" /\ ~call[c1].inferInvoked
    /\ Done(c2) /\ call[c2].outcome = "result" /\ call[c2].result.tokens # <<>>

\* the text without its whitespace
Squeeze(text) == SelectSeq(text, LAMBDA c : ~IsSpace(c))

\* the texts of the tokens first..last, one after the other
RECURSIVE TextOfTokens(_, _, _)
TextOfTokens(transcription, first, last) ==
  IF first > last THEN <<>>
  ELSE transcription[first].text \o TextOfTokens(transcription, first + 1, last)

\* C17: buffers are closed exactly at the tokens whose trimmed text ends in
\* '.', '!' or '?' and at the last token: the emitted segments are, in order,
\* the buffers so delimited that hold more than whitespace, each made of
\* exactly the tokens from the one after the previous boundary up to its own
\* boundary; every segment not closed at the last token ends in '.', '!' or
\* '?'; a single token without terminal punctuation yields one segment.
C17_ClosedAtBoundaries ==
  (input.kind = "tokens" /\ output.done)
    => LET t    == input.transcription
           segs == output.result.tokens
           E    == EmittingBoundaries(t)
       IN /\ Len(segs) = Cardinality(E)
          /\ \A k \in 1..Len(segs) :
               LET b == Nth(E, k)
               IN /\ Squeeze(segs[k].text) = Squeeze(TextOfTokens(t, SpanStart(t, b), b))
                  /\ b # Len(t) => segs[k].text[Len(segs[k].text)] \in {".", "!", "?"}
          /\ (Len(t) = 1 /\ ~Blank(t[1].text)) => Len(segs) = 1

\* a token ending a sentence with whitespace after its mark, then a token
\* without a mark closed as the last one: two segments
C17_Witness ==
  /\ input.kind = "tokens"
  /\ output.done
  /\ Len(input.transcription) = 2
  /\ HasTerminalMark(input.transcription[1].text)
  /\ IsSpace(input.transcription[1].text[Len(input.transcription[1].text)])
  /\ ~HasTerminalMark(input.transcription[2].text)
  /\ Len(output.result.tokens) = 2

\* the whole second nearest to a time in milliseconds, a half going up
NearestSecond(ms) ==
  Num(CHOOSE sec \in 0..(ms \div 1000 + 1) : sec * 1000 - 500 <= ms /\ ms < sec * 1000 + 500)

\* C18: a well-formed timestamp HH:MM:SS,mmm converts to
\* hours*3600 + minutes*60 + seconds + milliseconds/1000 seconds; for tokens
\* with well-formed timestamps each emitted segment's start is the start of
\* the first token of its buffer and its end the end of its boundary token,
\* each rounded to the nearest whole second.
C18_SegmentTimes ==
  /\ (input.kind = "timestamp" /\ output.done /\ input.timestamp \in WellFormedTimestamps)
       => \E ms \in BaseTimes :
            /\ input.timestamp = FormatTimestamp(ms)
            /\ output.seconds = Num(ms)
  /\ (input.kind = "tokens" /\ output.done /\ WellTimed(input.transcription))
       => LET t    == input.transcription
              segs == output.result.tokens
              E    == EmittingBoundaries(t)
          IN \A k \in 1..Len(segs) :
               LET b == Nth(E, k)
               IN /\ segs[k].start = NearestSecond(TimeOf(t[SpanStart(t, b)].from))
                  /\ segs[k].end = NearestSecond(TimeOf(t[b].to))

\* a token from 0 s to 0.5 s and a token ending the sentence from 0.5 s to
\* 1 s: one segment from 0 to 1
C18_Witness ==
  /\ input.kind = "tokens"
  /\ output.done
  /\ Len(input.transcription) = 2
  /\ input.transcription[1].from = FormatTimestamp(0)
  /\ input.transcription[1].to = FormatTimestamp(500)
  /\ input.transcription[2].from = FormatTimestamp(500)
  /\ input.transcription[2].to = FormatTimestamp(1000)
  /\ Len(output.result.tokens) = 1
  /\ output.result.tokens[1].start = Num(0)
  /\ output.result.tokens[1].end = Num(1)

\* C19: the installation is attempted exactly once per process, and while
\* it has not finished no request can be serviced: there is no handler, no
\* window, no readiness reply and no transcribe call.
C19_InstallOnceBeforeRequests ==
  /\ installAttempts <= 1
  /\ phase # "launching" => installAttempts = 1
  /\ installOutcome = "pending"
       => /\ handlers = {}
          /\ windows = {}
          /\ readyReplies = {}
          /\ \A c \in CallIds : call[c].pc = "idle"

\* after one installation: a readiness reply, a finished call, and a window
\* re-created on activate
C19_Witness ==
  /\ installOutcome = "ok"
  /\ installAttempts = 1
  /\ TRUE \in readyReplies
  /\ \E c \in CallIds : call[c].outcome = "result"
  /\ createWindowThrew > 0

\* C20: every progress value the engine emits is sent to the page in the
\* step it is emitted in, while the inference is running (the handler's
\* window being open); the step that ends the inference, with a result or an
\* error, sends nothing.
C20_ProgressForwardedAtOnce ==
  [][\A c \in CallIds :
       /\ call'[c].emitted # call[c].emitted
            => /\ call[c].pc = "inferring"
               /\ call'[c].pc = "inferring"
               /\ \E v \in ProgressValues :
                    /\ call'[c].emitted = Append(call[c].emitted, v)
                    /\ mainWindow \in loaded => channel' = Append(channel, <<c, v>>)
       /\ (call[c].pc = "inferring" /\ call'[c].pc = "done")
            => ValuesOf(channel', c) = ValuesOf(channel, c)]_vars

\* a callback has observed two progress values of a call whose inference is
\* still running
C20_Witness ==
  \E c \in CallIds :
    \E cb \in ListeningCallbacks :
      /\ call[c].pc = "inferring"
      /\ Len(call[c].emitted) = 2
      /\ ValuesOf(observed[cb], c) = call[c].emitted

\* C21: every createWindow call completes: none ends in an exception, every
\* window created has its page load started (it is loading or loaded), and
\* once a window was created each of the two channels has its handler.
C21_CreateWindowCompletes ==
  /\ createWindowThrew = 0
  /\ \A w \in windows : w \in loading \cup loaded
  /\ nextWindow > 1 => handlers = Channels

====
